---- MODULE Spec2Model ----
(***************************************************************************)
(* gocar: the `new` command, the project Creator and the global template   *)
(* registry.  The file system is a set of directories and a map from file  *)
(* paths to contents; a path is the sequence of its segments, the first    *)
(* being the working directory the command was started in.  Strings that   *)
(* are formatted with %q are sequences of one-character strings.           *)
(***************************************************************************)
EXTENDS Integers, Sequences, FiniteSets, TLC

VARIABLES
    configFile,   \* ~/.gocar/config.toml: absent, undecodable, or its decoded tables
    dirs,         \* directories on disk
    files,        \* regular files on disk: path -> content
    op,           \* the command last run: "none", "new", "help", "list"
    cwd,          \* working directory of the last `new`
    appName,      \* args[0] of the last `new`
    mode,         \* mode token of the last `new`
    creator,      \* the Creator the last `new` built (Nil when none was built)
    createErr,    \* what Creator.Create returned (Nil = nil error)
    trace,        \* the file-system and external steps the last Create executed
    loaded,       \* what the last LoadGlobalConfig returned
    out,          \* what the last command printed: [kind, token, names]
    exit          \* exit status of the last command

vars == <<configFile, dirs, files, op, cwd, appName, mode, creator, createErr,
          trace, loaded, out, exit>>

\* ------------------------------------------------------------------ bounds
\* At most this many steps of one Create are made to fail by the environment,
\* among its first MaxSteps steps.
MaxFaults == 2

MaxSteps == 17

\* ------------------------------------------------------------ Go's values
Nil == [nil |-> TRUE]

EmptyMap == <<>>

Range(s) == {s[i] : i \in DOMAIN s}

\* the orders in which `for k, v := range m` may visit the keys of a map
Orders(m) ==
    LET K == DOMAIN m
        n == Cardinality(K)
    IN  {s \in [1..n -> K] : \A i, j \in 1..n : s[i] = s[j] => i = j}

\* ------------------------------------------------------------- strings
Str_go_vet  == <<"g","o"," ","v","e","t"," ",".","/",".",".",".">>
Str_go_fmt  == <<"g","o"," ","f","m","t"," ",".","/",".",".",".">>
Str_go_test == <<"g","o"," ","t","e","s","t"," ","-","v"," ",".","/",".",".",".">>

\* strconv.Quote on one character (fmt's %q)
QuoteChar(ch) ==
    CASE ch = "\"" -> <<"\\", "\"">>
      [] ch = "\\" -> <<"\\", "\\">>
      [] ch = "\n" -> <<"\\", "n">>
      [] ch = "\t" -> <<"\\", "t">>
      [] OTHER     -> <<ch>>

RECURSIVE QuoteBody(_)
QuoteBody(s) ==
    IF s = <<>> THEN <<>> ELSE QuoteChar(Head(s)) \o QuoteBody(Tail(s))

Quote(s) == <<"\"">> \o QuoteBody(s) \o <<"\"">>

\* fmt.Sprintf("%s = %q\n", name, cmd)
CommandLine(name, cmd) == <<name, " ", "=", " ">> \o Quote(cmd) \o <<"\n">>

\* ------------------------------------------------------------ file system
Prefixes(p) == {SubSeq(p, 1, k) : k \in 1..Len(p)}

Dir(p) == SubSeq(p, 1, Len(p) - 1)

Join(p, rel) == p \o rel

ConfigFileName == <<".gocar.toml">>

\* A Create in progress: the disk, the steps executed so far, the error that
\* ended it (Nil while running).  Step number i fails when i \in F.
Start(ds, fs) == [dirs |-> ds, files |-> fs, trace |-> <<>>, err |-> Nil]

StepNo(st) == Len(st.trace) + 1

Failed(st, name, p) ==
    [st EXCEPT !.trace = Append(@, [op |-> name, path |-> p, ok |-> FALSE]),
               !.err   = [op |-> name, path |-> p]]

Done(st, name, p, ds, fs) ==
    [st EXCEPT !.trace = Append(@, [op |-> name, path |-> p, ok |-> TRUE]),
               !.dirs  = ds,
               !.files = fs]

\* os.MkdirAll(path, 0755)
MkdirAll(st, p, F) ==
    IF StepNo(st) \in F \/ \E q \in Prefixes(p) : q \in DOMAIN st.files
    THEN Failed(st, "MkdirAll", p)
    ELSE Done(st, "MkdirAll", p, st.dirs \cup Prefixes(p), st.files)

\* util.WriteFile(path, content): creates the parent directories, then writes
WriteFile(st, p, content, F) ==
    IF \/ StepNo(st) \in F
       \/ p \in st.dirs
       \/ \E q \in Prefixes(Dir(p)) : q \in DOMAIN st.files
    THEN Failed(st, "WriteFile", p)
    ELSE Done(st, "WriteFile", p, st.dirs \cup Prefixes(Dir(p)),
              [q \in DOMAIN st.files \cup {p} |->
                   IF q = p THEN content ELSE st.files[q]])

\* util.RunCommandSilent(dir, "go", "mod", "init", name)
RunCommandSilent(st, root, name, F) ==
    IF StepNo(st) \in F \/ root \notin st.dirs
    THEN Failed(st, "GoModInit", root)
    ELSE Done(st, "GoModInit", root, st.dirs,
              [q \in DOMAIN st.files \cup {Join(root, <<"go.mod">>)} |->
                   IF q = Join(root, <<"go.mod">>)
                   THEN [kind |-> "go.mod", name |-> name]
                   ELSE st.files[q]])

\* util.InitGit(dir)
InitGit(st, root, F) ==
    IF StepNo(st) \in F \/ root \notin st.dirs
    THEN Failed(st, "InitGit", root)
    ELSE Done(st, "InitGit", root, st.dirs \cup {Join(root, <<".git">>)}, st.files)

\* fmt.Errorf("failed to ... %s: %w", arg, err)
Wrap(msg, arg, err) == [msg |-> msg, arg |-> arg, cause |-> err]

\* One step of a Create: a call of a primitive, and how the caller wraps its
\* error ("" when it returns the error as it is).
MkdirStep(p, msg, arg) ==
    [op |-> "MkdirAll", path |-> p, content |-> Nil, msg |-> msg, arg |-> arg]

WriteStep(p, content) ==
    [op |-> "WriteFile", path |-> p, content |-> content, msg |-> "", arg |-> <<>>]

GoModStep(root, name) ==
    [op |-> "GoModInit", path |-> root, content |-> name,
     msg |-> "failed to initialize go.mod", arg |-> <<>>]

Apply(st, step, F) ==
    CASE step.op = "MkdirAll"  -> MkdirAll(st, step.path, F)
      [] step.op = "WriteFile" -> WriteFile(st, step.path, step.content, F)
      [] step.op = "GoModInit" -> RunCommandSilent(st, step.path, step.content, F)

\* if err := step(); err != nil { return err }
Returned(s, step) ==
    IF s.err = Nil \/ step.msg = "" THEN s
    ELSE [s EXCEPT !.err = Wrap(step.msg, step.arg, @)]

\* mutant: a failed step does not end the run
RECURSIVE Exec_KeepGoing(_, _, _)
Exec_KeepGoing(st, steps, F) ==
    IF steps = <<>> THEN st
    ELSE Exec_KeepGoing(Returned(Apply(st, Head(steps), F), Head(steps)), Tail(steps), F)

\* the steps one after the other, up to the first that fails
RECURSIVE Exec(_, _, _)
Exec(st, steps, F) ==
    IF steps = <<>> \/ st.err # Nil THEN st
    ELSE Exec(Returned(Apply(st, Head(steps), F), Head(steps)), Tail(steps), F)

\* ------------------------------------------------------- project.Creator
NewCreator(name, m) == [Name |-> name, Mode |-> m, Template |-> Nil]

NewCreatorWithTemplate(name, tpl) == [Name |-> name, Mode |-> tpl.Mode, Template |-> tpl]

Root(wd, c) == <<wd, c.Name>>

EmptyFile == [kind |-> "text", text |-> ""]

Text(kind, name) == [kind |-> kind, name |-> name]

\* for _, dir := range dirs { os.MkdirAll(dir, 0755) }
MkdirSteps(ds) ==
    [i \in 1..Len(ds) |-> MkdirStep(ds[i], "failed to create directory", ds[i])]

SimpleDirs(root) == <<root, Join(root, <<"bin">>)>>

SimpleSteps(root, name) ==
    MkdirSteps(SimpleDirs(root))
    \o <<GoModStep(root, name),
         WriteStep(Join(root, <<"main.go">>), Text("SimpleMainTemplate", name)),
         WriteStep(Join(root, <<"README.md">>), Text("SimpleReadmeTemplate", name)),
         WriteStep(Join(root, <<".gitignore">>), Text("GitignoreTemplate", name))>>

createSimpleProject(c, wd, st, F) == Exec(st, SimpleSteps(Root(wd, c), c.Name), F)

ProjectDirs(root) ==
    <<root, Join(root, <<"cmd", "server">>), Join(root, <<"internal">>),
      Join(root, <<"pkg">>), Join(root, <<"test">>), Join(root, <<"bin">>)>>

\* mutant: test/ gets no placeholder
ProjectSteps_NoTestKeep(root, name) ==
    MkdirSteps(ProjectDirs(root))
    \o <<GoModStep(root, name),
         WriteStep(Join(root, <<"cmd", "server", "main.go">>),
                   Text("ProjectMainTemplate", name)),
         WriteStep(Join(root, <<"internal", ".gitkeep">>), EmptyFile),
         WriteStep(Join(root, <<"pkg", ".gitkeep">>), EmptyFile),
         WriteStep(Join(root, <<"README.md">>), Text("ProjectReadmeTemplate", name)),
         WriteStep(Join(root, <<".gitignore">>), Text("GitignoreTemplate", name))>>

ProjectSteps(root, name) ==
    MkdirSteps(ProjectDirs(root))
    \o <<GoModStep(root, name),
         WriteStep(Join(root, <<"cmd", "server", "main.go">>),
                   Text("ProjectMainTemplate", name)),
         WriteStep(Join(root, <<"internal", ".gitkeep">>), EmptyFile),
         WriteStep(Join(root, <<"pkg", ".gitkeep">>), EmptyFile),
         WriteStep(Join(root, <<"test", ".gitkeep">>), EmptyFile),
         WriteStep(Join(root, <<"README.md">>), Text("ProjectReadmeTemplate", name)),
         WriteStep(Join(root, <<".gitignore">>), Text("GitignoreTemplate", name))>>

createProjectMode(c, wd, st, F) == Exec(st, ProjectSteps(Root(wd, c), c.Name), F)

\* the base scaffold createFromTemplate builds first
BaseScaffold(c, wd, st, F) ==
    IF c.Mode = "simple" THEN createSimpleProject(c, wd, st, F)
    ELSE createProjectMode(c, wd, st, F)

\* for _, dir := range c.Template.Dirs { MkdirAll(dirPath); WriteFile(dirPath/.gitkeep, "") }
RECURSIVE TemplateDirSteps(_, _)
TemplateDirSteps(root, ds) ==
    IF ds = <<>> THEN <<>>
    ELSE <<MkdirStep(Join(root, Head(ds)), "failed to create directory", Head(ds)),
           WriteStep(Join(Join(root, Head(ds)), <<".gitkeep">>), EmptyFile)>>
         \o TemplateDirSteps(root, Tail(ds))

\* for filePath, content := range c.Template.Files { MkdirAll(Dir(fullPath));
\* WriteFile(fullPath, content) }, the keys visited in the order fo
RECURSIVE TemplateFileSteps(_, _, _)
TemplateFileSteps(root, fm, fo) ==
    IF fo = <<>> THEN <<>>
    ELSE <<MkdirStep(Dir(Join(root, Head(fo))), "failed to create directory for", Head(fo)),
           WriteStep(Join(root, Head(fo)), fm[Head(fo)])>>
         \o TemplateFileSteps(root, fm, Tail(fo))

\* the fixed command set of createTemplateConfig
BuiltinCommands ==
    [n \in {"vet", "fmt", "test"} |->
        CASE n = "vet" -> Str_go_vet [] n = "fmt" -> Str_go_fmt [] OTHER -> Str_go_test]

\* mutant: a built-in command is kept when the template declares the same name
MergeCommands_NoOverride(tc) ==
    [n \in DOMAIN BuiltinCommands \cup DOMAIN tc |->
        IF n \in DOMAIN BuiltinCommands THEN BuiltinCommands[n] ELSE tc[n]]

\* commands[name] = cmd for every command of the template
MergeCommands(tc) ==
    [n \in DOMAIN BuiltinCommands \cup DOMAIN tc |->
        IF n \in DOMAIN tc THEN tc[n] ELSE BuiltinCommands[n]]

BuildEntry(c) == IF c.Mode = "project" THEN "cmd/server" ELSE "."

\* for name, cmd := range commands { cmdSection += Sprintf("%s = %q\n", name, cmd) },
\* the keys visited in the order co
CmdSection(commands, co) == [i \in 1..Len(co) |-> CommandLine(co[i], commands[co[i]])]

\* The text is the fixed document with mode, name, entry and the commands
\* section filled in; the record holds the four.
generateTemplateConfigContent(c, commands, co) ==
    [kind |-> "gocar.toml", mode |-> c.Mode, name |-> c.Name,
     entry |-> BuildEntry(c), commands |-> CmdSection(commands, co)]

\* every outcome of createTemplateConfig: one per iteration order of the map
createTemplateConfig(c, wd, st, F) ==
    {WriteFile(st, Join(Root(wd, c), ConfigFileName),
               generateTemplateConfigContent(c, MergeCommands(c.Template.Commands), co), F)
        : co \in Orders(MergeCommands(c.Template.Commands))}

\* every outcome of the loop over c.Template.Files: one per iteration order
TemplateFiles(c, wd, st, F) ==
    {Exec(st, TemplateFileSteps(Root(wd, c), c.Template.Files, fo), F)
        : fo \in Orders(c.Template.Files)}

\* if err != nil { return err } on every outcome in S, what follows on the others
AndThenConfig(c, wd, S, F) ==
    UNION {IF s.err # Nil THEN {s} ELSE createTemplateConfig(c, wd, s, F) : s \in S}

\* every outcome of createFromTemplate
createFromTemplate(c, wd, st, F) ==
    AndThenConfig(c, wd,
        TemplateFiles(c, wd,
            Exec(BaseScaffold(c, wd, st, F),
                 TemplateDirSteps(Root(wd, c), c.Template.Dirs), F),
            F),
        F)

\* if err := util.InitGit(c.Name); err != nil { print a warning }; return nil
GitStep(st, root, F) ==
    IF st.err # Nil THEN st ELSE [InitGit(st, root, F) EXCEPT !.err = Nil]

\* mutant: only a regular file of that name counts as existing
Exists_FileOnly(wd, c, ds, fs) == Root(wd, c) \in DOMAIN fs

\* os.Stat(c.Name) finds something
Exists(wd, c, ds, fs) == Root(wd, c) \in ds \/ Root(wd, c) \in DOMAIN fs

AlreadyExists(c) == [msg |-> "already exists", arg |-> c.Name]

\* what Create builds before it initializes git
Build(c, wd, st, F) ==
    IF c.Template # Nil THEN createFromTemplate(c, wd, st, F)
    ELSE IF c.Mode = "simple" THEN {createSimpleProject(c, wd, st, F)}
    ELSE {createProjectMode(c, wd, st, F)}

\* every outcome of Creator.Create started in wd on the disk (ds, fs)
Create(c, wd, ds, fs, F) ==
    IF Exists(wd, c, ds, fs)
    THEN {[Start(ds, fs) EXCEPT !.err = AlreadyExists(c)]}
    ELSE {GitStep(s, Root(wd, c), F) : s \in Build(c, wd, Start(ds, fs), F)}

\* --------------------------------------------------- config.GlobalConfig
\* the value of a key of a decoded table, Go's zero value when the key is absent
Field(table, key) == IF key \in DOMAIN table THEN table[key] ELSE ""

DefaultGlobalConfig ==
    [Templates |-> EmptyMap, Defaults |-> [Author |-> "", License |-> "MIT"]]

\* toml.DecodeFile into &GlobalConfig{Templates: make(map[string]TemplateConfig)}
Decoded(cf) ==
    [Templates |-> cf.templates,
     Defaults  |-> [Author  |-> Field(cf.defaults, "author"),
                    License |-> Field(cf.defaults, "license")]]

LoadGlobalConfig(cf) ==
    IF cf.state = "absent" THEN [config |-> DefaultGlobalConfig, err |-> Nil]
    ELSE IF cf.state = "invalid"
         THEN [config |-> Nil, err |-> [msg |-> "failed to parse", arg |-> "config.toml"]]
         ELSE [config |-> Decoded(cf), err |-> Nil]

GlobalConfigExists(cf) == cf.state # "absent"

\* mutant: the lookup ignores the case of the name
GetTemplate_FoldCase(cfg, name) ==
    LET lower == IF name = "API" THEN "api" ELSE name
    IN  IF lower \in DOMAIN cfg.Templates
        THEN [tpl |-> cfg.Templates[lower], ok |-> TRUE]
        ELSE [tpl |-> Nil, ok |-> FALSE]

GetTemplate(cfg, name) ==
    IF name \in DOMAIN cfg.Templates
    THEN [tpl |-> cfg.Templates[name], ok |-> TRUE]
    ELSE [tpl |-> Nil, ok |-> FALSE]

ListTemplates(cfg) == cfg.Templates

\* ------------------------------------------------------ inputs of the model
Cwds == {"w1"}

TwoCwds == {"w1", "w2"}

Names == {"app"}

HelpArgs == {"help", "--help", "-h"}

NoFlag == "(no --mode)"

ModeArgs ==
    {NoFlag, "simple", "project", "api", "cli", "web", "lib", "clash", "API", "nonexistent"}

Cmd_dev  == <<"g","o"," ","r","u","n"," ",".">>
Cmd_test == <<"g","o"," ","t","e","s","t"," ","\"",".","\\","p","k","g","\"">>

Template(d, m, ds, fm, cm) ==
    [Description |-> d, Mode |-> m, Dirs |-> ds, Files |-> fm, Commands |-> cm]

Tpl_api ==
    Template("Web API project", "project", << <<"api">> >>, EmptyMap, [dev |-> Cmd_dev])

Tpl_cli ==
    Template("", "simple", <<>>,
             (<<"README.md">> :> [kind |-> "text", text |-> "cli readme"]),
             [test |-> Cmd_test])

Tpl_simple ==
    Template("shadows a built-in mode", "project", << <<"extra">> >>, EmptyMap,
             [dev |-> Cmd_dev])

Tpl_web == Template("", "web", <<>>, EmptyMap, EmptyMap)

Tpl_lib ==
    Template("Go library", "simple", <<>>,
             (<<"README.md">> :> [kind |-> "text", text |-> "lib readme"])
             @@ (<<"docs", "guide.md">> :> [kind |-> "text", text |-> "guide"]),
             EmptyMap)

\* an extra directory named as a file the base scaffold has written
Tpl_clash == Template("", "simple", << <<"README.md">> >>, EmptyMap, EmptyMap)

ConfigFiles ==
    { [state |-> "absent"],
      [state |-> "invalid"],
      [state |-> "toml", templates |-> [api |-> Tpl_api, cli |-> Tpl_cli],
       defaults |-> EmptyMap],
      [state |-> "toml",
       templates |-> [simple |-> Tpl_simple, web |-> Tpl_web, lib |-> Tpl_lib,
                      clash |-> Tpl_clash],
       defaults |-> [license |-> "Apache-2.0"]] }

\* the steps of one Create that the environment makes fail: at most MaxFaults
\* of the first MaxSteps
RECURSIVE FaultsUpTo(_)
FaultsUpTo(k) ==
    IF k = 0 THEN {{}}
    ELSE LET prev == FaultsUpTo(k - 1)
         IN  prev \cup {f \cup {i} : f \in prev, i \in 1..MaxSteps}

FaultSets == FaultsUpTo(MaxFaults)

\* ---------------------------------------------------------------- commands
NotRun == [notRun |-> TRUE]

Message(kind, token, names) == [kind |-> kind, token |-> token, names |-> names]

\* nothing generated yet in the working directories W
InitIn(W) ==
    /\ configFile \in ConfigFiles
    /\ dirs = {<<w>> : w \in W}
    /\ files = EmptyMap
    /\ op = "none"
    /\ cwd = "" /\ appName = "" /\ mode = ""
    /\ creator = Nil
    /\ createErr = NotRun
    /\ trace = <<>>
    /\ loaded = NotRun
    /\ out = Message("", "", {})
    /\ exit = 0

\* the command ends without a Creator having been run
NoCreate(ld, msg, code) ==
    /\ creator' = Nil /\ createErr' = NotRun /\ trace' = <<>>
    /\ loaded' = ld /\ out' = msg /\ exit' = code
    /\ UNCHANGED <<dirs, files>>

\* creator.Create() and the report of its result; os.Exit(1) on an error.
\* The environment picks the steps that fail once Create gets past its
\* existence check, among the sets FS.
RunCreator(wd, c, ld, FS) ==
    \E F \in IF Exists(wd, c, dirs, files) THEN {{}} ELSE FS :
        \E r \in Create(c, wd, dirs, files, F) :
            /\ creator' = c /\ createErr' = r.err /\ trace' = r.trace
            /\ dirs' = r.dirs /\ files' = r.files
            /\ loaded' = ld
            /\ out' = IF r.err # Nil THEN Message("Error creating project", c.Name, {})
                      ELSE Message("Successfully created project", c.Name, {})
            /\ exit' = IF r.err # Nil THEN 1 ELSE 0

\* the mode `gocar new` resolves its arguments to: "simple" without --mode
ModeOf(modeArg) == IF modeArg = NoFlag THEN "simple" ELSE modeArg

\* mutant: a template of the same name shadows the built-in mode
IsBuiltin_Shadowed(m) ==
    /\ m = "simple" \/ m = "project"
    /\ ~(configFile.state = "toml" /\ m \in DOMAIN configFile.templates)

IsBuiltin(m) == m = "simple" \/ m = "project"

\* gocar new <name> [--mode <modeArg>], started in wd
NewCommandRun(wd, name, modeArg, FS) ==
    LET m  == ModeOf(modeArg)
        ld == LoadGlobalConfig(configFile)
        t  == GetTemplate(ld.config, m)
    IN  /\ op' = "new" /\ cwd' = wd /\ appName' = name /\ mode' = m
        /\ UNCHANGED configFile
        /\ IF IsBuiltin(m)
           THEN RunCreator(wd, NewCreator(name, m), NotRun, FS)
           ELSE IF ld.err # Nil
           THEN NoCreate(ld, Message("Error loading global config", m, {}), 1)
           ELSE IF ~t.ok
           THEN NoCreate(ld, Message("Unknown mode or template", m,
                                     DOMAIN ListTemplates(ld.config)), 1)
           ELSE RunCreator(wd, NewCreatorWithTemplate(name, t.tpl), ld, FS)

\* gocar new help | --help | -h
NewCommandHelp(arg) ==
    /\ op' = "help" /\ cwd' = "" /\ appName' = arg /\ mode' = ""
    /\ NoCreate(NotRun, Message("gocar new - Create a new Go project", "", {}), 0)
    /\ UNCHANGED configFile

\* gocar config list
ConfigList ==
    LET ld == LoadGlobalConfig(configFile)
    IN  /\ op' = "list" /\ cwd' = "" /\ appName' = "" /\ mode' = ""
        /\ UNCHANGED configFile
        /\ IF ~GlobalConfigExists(configFile)
           THEN NoCreate(NotRun, Message("No global config found.", "", {}), 0)
           ELSE IF ld.err # Nil
           THEN NoCreate(ld, Message("Error loading config", "", {}), 1)
           ELSE IF DOMAIN ListTemplates(ld.config) = {}
           THEN NoCreate(ld, Message("No templates defined.", "", {}), 0)
           ELSE NoCreate(ld, Message("Available templates:", "",
                                     DOMAIN ListTemplates(ld.config)), 0)

\* one command, started in a directory of W, its Create hit by a fault set of FS
NextIn(W, FS) ==
    \/ \E wd \in W, name \in Names, modeArg \in ModeArgs :
           NewCommandRun(wd, name, modeArg, FS)
    \/ \E arg \in HelpArgs : NewCommandHelp(arg)
    \/ ConfigList

\* one working directory, steps failing
Init == InitIn(Cwds)

Next == NextIn(Cwds, FaultSets)

Spec == Init /\ [][Next]_vars

\* two working directories, no step failing: the same name can be generated twice
InitTwoDirs == InitIn(TwoCwds)

NextTwoDirs == NextIn(TwoCwds, {{}})

SpecTwoDirs == InitTwoDirs /\ [][NextTwoDirs]_vars

\* ============================================================== properties
\* the root of the project the last `new` was asked to create
Target == <<cwd, appName>>

\* the last command ran a Creator
Ran == op = "new" /\ creator # Nil

\* the last command ran a Creator with a template, and Create returned nil
TemplatedOk == Ran /\ creator.Template # Nil /\ createErr = Nil

\* the last command ran a Creator without a template, and Create returned nil
BuiltinOk == Ran /\ creator.Template = Nil /\ createErr = Nil

\* the project-local configuration file of the target
LocalConfig == files[Join(Target, ConfigFileName)]

\* the templates of the configuration file, as the registry's key set
RegistryKeys == IF configFile.state = "toml" THEN DOMAIN configFile.templates ELSE {}

\* C1: when a `new` whose Create succeeded is followed by a `new` that runs a
\* Creator on the same name in the same directory, the second Create returns
\* the 'already exists' error, executes no step (no directory creation, file
\* write, module or git initialization) and leaves the disk as it was.
C1_SecondCreateFails ==
    [][(/\ Ran /\ createErr = Nil
        /\ op' = "new" /\ creator' # Nil /\ cwd' = cwd /\ appName' = appName)
       => (/\ createErr' = AlreadyExists(creator')
           /\ trace' = <<>>
           /\ dirs' = dirs /\ files' = files
           /\ exit' = 1)]_vars

\* C1 witness: Create was refused on a project an earlier Create had completed
\* (git is initialized last).
C1_Witness ==
    /\ Ran /\ createErr = AlreadyExists(creator) /\ trace = <<>>
    /\ Join(Target, <<".git">>) \in dirs
    /\ Join(Target, <<".gitignore">>) \in DOMAIN files

\* the paths a template adds under root: its extra directories, their
\* placeholders and its extra files
TemplatePaths(root, tpl) ==
    {Join(root, tpl.Dirs[i]) : i \in DOMAIN tpl.Dirs}
    \cup {Join(Join(root, tpl.Dirs[i]), <<".gitkeep">>) : i \in DOMAIN tpl.Dirs}
    \cup {Join(root, f) : f \in DOMAIN tpl.Files}

\* C2: a `new` with mode token `simple` or `project` runs a Creator that has
\* no template, whatever the registry holds: no step of it touches the
\* project-local configuration file, nor a directory or file of a template
\* of that name.
C2_BuiltinPrecedence ==
    (op = "new" /\ mode \in {"simple", "project"})
    => /\ creator # Nil
       /\ creator.Template = Nil
       /\ creator.Mode = mode
       /\ \A i \in DOMAIN trace :
            /\ trace[i].path # Join(Target, ConfigFileName)
            /\ mode \in RegistryKeys
               => trace[i].path \notin TemplatePaths(Target, configFile.templates[mode])

\* C2 witness: `new --mode simple` succeeded with a registry holding a template
\* named `simple`.
C2_Witness ==
    /\ op = "new" /\ mode = "simple" /\ "simple" \in RegistryKeys
    /\ Ran /\ createErr = Nil
    /\ Join(Target, <<"main.go">>) \in DOMAIN files

\* the string a quoted literal denotes: the inverse of Quote on its escapes
RECURSIVE UnquoteBody(_)
UnquoteBody(q) ==
    IF q = <<>> THEN <<>>
    ELSE IF Head(q) = "\\" /\ Len(q) >= 2
         THEN << CASE q[2] = "n" -> "\n" [] q[2] = "t" -> "\t" [] OTHER -> q[2] >>
              \o UnquoteBody(SubSeq(q, 3, Len(q)))
         ELSE <<Head(q)>> \o UnquoteBody(Tail(q))

\* a line `name = "..."\n` of the commands block: its name and the command it carries
LineName(line) == line[1]

LineCommand(line) == UnquoteBody(SubSeq(line, 6, Len(line) - 2))

WellFormedLine(line) ==
    /\ Len(line) >= 7
    /\ SubSeq(line, 2, 5) = <<" ", "=", " ", "\"">>
    /\ SubSeq(line, Len(line) - 1, Len(line)) = <<"\"", "\n">>

\* the command a name must carry, given the template's mapping
ExpectedCommand(T, n) ==
    IF n \in DOMAIN T THEN T[n]
    ELSE CASE n = "vet"  -> Str_go_vet
           [] n = "fmt"  -> Str_go_fmt
           [] n = "test" -> Str_go_test

\* C3: after a successful templated generation with command mapping T, the
\* commands block of the project-local configuration has exactly one line per
\* name in {vet, fmt, test} \cup keys(T) and no other line; the line of a name
\* in keys(T) carries T's command (also for vet, fmt, test), the line of any
\* other built-in name carries its fixed value.
C3_CommandMerge ==
    TemplatedOk =>
        LET T     == creator.Template.Commands
            names == {"vet", "fmt", "test"} \cup DOMAIN T
            block == LocalConfig.commands
        IN  /\ Len(block) = Cardinality(names)
            /\ \A i \in DOMAIN block :
                 /\ WellFormedLine(block[i])
                 /\ LineName(block[i]) \in names
                 /\ LineCommand(block[i]) = ExpectedCommand(T, LineName(block[i]))
            /\ \A n \in names : Cardinality({i \in DOMAIN block : LineName(block[i]) = n}) = 1

\* C3 witness: a template that overrides `test` with a command holding quotes
\* and a backslash was generated.
C3_Witness ==
    /\ TemplatedOk
    /\ "test" \in DOMAIN creator.Template.Commands
    /\ creator.Template.Commands["test"] # Str_go_test
    /\ \E i \in DOMAIN LocalConfig.commands :
         /\ LineName(LocalConfig.commands[i]) = "test"
         /\ LineCommand(LocalConfig.commands[i]) = Cmd_test

\* step i of the last Create wrote the file p / failed and is not the git step
Wrote(p) == \E i \in DOMAIN trace : trace[i] = [op |-> "WriteFile", path |-> p, ok |-> TRUE]

\* the directory a build entry names
EntryDir(root, e) == IF e = "." THEN root ELSE Join(root, <<"cmd", "server">>)

\* C4 (as claimed): after a successful templated generation the build entry of
\* the project-local configuration is `.` exactly when the entry-point file
\* was written at the project root and `cmd/server` exactly when it was
\* written under cmd/server/, and the directory it names holds main.go.
C4_EntryMatchesLayout ==
    TemplatedOk =>
        /\ LocalConfig.entry \in {".", "cmd/server"}
        /\ LocalConfig.entry = "." <=> Wrote(Join(Target, <<"main.go">>))
        /\ LocalConfig.entry = "cmd/server"
             <=> Wrote(Join(Target, <<"cmd", "server", "main.go">>))
        /\ Join(EntryDir(Target, LocalConfig.entry), <<"main.go">>) \in DOMAIN files

\* C5 (as claimed): a Creator built from a template whose base mode is neither
\* `simple` nor `project` returns an error from Create and does not complete
\* a scaffold for it: no entry-point file is left beside a project-local
\* configuration.
C5_UnknownBaseModeRejected ==
    (Ran /\ creator.Template # Nil /\ creator.Mode \notin {"simple", "project"})
    => /\ createErr # Nil
       /\ Join(Target, ConfigFileName) \notin DOMAIN files

\* p is root or lies under it
Under(root, p) == Len(p) >= Len(root) /\ SubSeq(p, 1, Len(root)) = root

\* what the external initializers create: go.mod (go mod init), .git (git init)
External(root) == {Join(root, <<"go.mod">>), Join(root, <<".git">>)}

SimpleLayoutDirs(root) == {root, Join(root, <<"bin">>)}

SimpleLayoutFiles(root, name) ==
    (Join(root, <<"main.go">>) :> [kind |-> "SimpleMainTemplate", name |-> name])
    @@ (Join(root, <<"README.md">>) :> [kind |-> "SimpleReadmeTemplate", name |-> name])
    @@ (Join(root, <<".gitignore">>) :> [kind |-> "GitignoreTemplate", name |-> name])

ProjectLayoutDirs(root) ==
    {root, Join(root, <<"cmd">>), Join(root, <<"cmd", "server">>),
     Join(root, <<"internal">>), Join(root, <<"pkg">>), Join(root, <<"test">>),
     Join(root, <<"bin">>)}

ProjectLayoutFiles(root, name) ==
    (Join(root, <<"cmd", "server", "main.go">>)
        :> [kind |-> "ProjectMainTemplate", name |-> name])
    @@ (Join(root, <<"internal", ".gitkeep">>) :> [kind |-> "text", text |-> ""])
    @@ (Join(root, <<"pkg", ".gitkeep">>) :> [kind |-> "text", text |-> ""])
    @@ (Join(root, <<"test", ".gitkeep">>) :> [kind |-> "text", text |-> ""])
    @@ (Join(root, <<"README.md">>) :> [kind |-> "ProjectReadmeTemplate", name |-> name])
    @@ (Join(root, <<".gitignore">>) :> [kind |-> "GitignoreTemplate", name |-> name])

\* the directories and files under root, those of the external initializers apart
OwnDirs(root) == {d \in dirs : Under(root, d)} \ External(root)

OwnFiles(root) == {f \in DOMAIN files : Under(root, f)} \ External(root)

\* C6: after a successful built-in generation the project root holds exactly
\* the fixed layout of its mode (go.mod and .git apart): for `simple` the root,
\* bin/, main.go, README.md and .gitignore; for `project` the root, cmd/server/,
\* internal/, pkg/, test/, bin/, cmd/server/main.go, a placeholder in each of
\* internal/, pkg/, test/, README.md and .gitignore; and no project-local
\* configuration file.
C6_BuiltinLayout ==
    BuiltinOk =>
        /\ creator.Mode \in {"simple", "project"}
        /\ Join(Target, ConfigFileName) \notin DOMAIN files
        /\ creator.Mode = "simple" =>
             /\ OwnDirs(Target) = SimpleLayoutDirs(Target)
             /\ OwnFiles(Target) = DOMAIN SimpleLayoutFiles(Target, appName)
             /\ \A f \in OwnFiles(Target) : files[f] = SimpleLayoutFiles(Target, appName)[f]
        /\ creator.Mode = "project" =>
             /\ OwnDirs(Target) = ProjectLayoutDirs(Target)
             /\ OwnFiles(Target) = DOMAIN ProjectLayoutFiles(Target, appName)
             /\ \A f \in OwnFiles(Target) : files[f] = ProjectLayoutFiles(Target, appName)[f]

\* C6 witness: a project-mode generation succeeded, go.mod and .git included.
C6_Witness ==
    /\ BuiltinOk /\ creator.Mode = "project"
    /\ Join(Target, <<"test", ".gitkeep">>) \in DOMAIN files
    /\ Join(Target, <<"go.mod">>) \in DOMAIN files
    /\ Join(Target, <<".git">>) \in dirs

\* the error a wrapped error was made from
Cause(e) == IF "cause" \in DOMAIN e THEN e.cause ELSE e

\* step i of the last Create failed and is fatal (any step but git's)
FatalAt(i) == ~trace[i].ok /\ trace[i].op # "InitGit"

\* what a step that succeeded has left on disk
EffectKept(step) ==
    CASE step.op = "MkdirAll"  -> step.path \in dirs
      [] step.op = "WriteFile" -> step.path \in DOMAIN files
      [] step.op = "GoModInit" -> Join(step.path, <<"go.mod">>) \in DOMAIN files
      [] step.op = "InitGit"   -> Join(step.path, <<".git">>) \in dirs

\* C7: Create returns an error exactly when the existence check or a fatal
\* step failed; the fatal step that failed is the last step executed, the
\* error returned is that step's, and what the steps before it wrote is still
\* on disk.  A failed git initialization is never followed by an error: git
\* is only run after every other step succeeded and Create then returns nil.
C7_FirstFatalError ==
    Ran =>
        /\ createErr # NotRun
        /\ createErr = AlreadyExists(creator) => trace = <<>>
        /\ createErr # AlreadyExists(creator) =>
             /\ createErr # Nil <=> \E i \in DOMAIN trace : FatalAt(i)
             /\ \A i \in DOMAIN trace : FatalAt(i) =>
                  /\ i = Len(trace)
                  /\ Cause(createErr) = [op |-> trace[i].op, path |-> trace[i].path]
             /\ \A i \in DOMAIN trace : trace[i].ok => EffectKept(trace[i])
             /\ \A i \in DOMAIN trace : trace[i].op = "InitGit" =>
                  /\ i = Len(trace)
                  /\ createErr = Nil
                  /\ \A j \in 1..(i - 1) : trace[j].ok

\* C7 witness: a templated generation whose git initialization alone failed
\* returned nil.
C7_Witness ==
    /\ TemplatedOk
    /\ trace # <<>>
    /\ trace[Len(trace)] = [op |-> "InitGit", path |-> Target, ok |-> FALSE]

\* C7 witness of the failing side: a write failed after earlier steps had
\* succeeded, and Create returned that write's error.
C7_WitnessFatal ==
    /\ Ran /\ createErr # Nil /\ Len(trace) >= 4
    /\ trace[Len(trace)].op = "WriteFile" /\ ~trace[Len(trace)].ok
    /\ createErr = [op |-> "WriteFile", path |-> trace[Len(trace)].path]

\* C8 (as claimed): a registry that LoadGlobalConfig returned has license `MIT`
\* whenever the configuration source supplies none: with no file it has zero
\* templates and license `MIT`, with a file that has no defaults.license its
\* license is `MIT` too.
C8_LicenseDefault ==
    (/\ loaded # NotRun /\ loaded.err = Nil
     /\ configFile.state = "absent" \/ "license" \notin DOMAIN configFile.defaults)
    => /\ loaded.config.Defaults.License = "MIT"
       /\ configFile.state = "absent" => DOMAIN loaded.config.Templates = {}

\* C9: a `new` whose mode token is neither `simple` nor `project` nor a key of
\* the loaded registry (compared exactly) runs no Creator, leaves the disk as
\* it was, exits with status 1, and its diagnostic names the token and every
\* template name of the registry.
C9_UnknownMode ==
    [][(/\ op' = "new" /\ mode' \notin {"simple", "project"}
        /\ loaded' # NotRun /\ loaded'.err = Nil
        /\ mode' \notin RegistryKeys)
       => (/\ creator' = Nil /\ createErr' = NotRun /\ trace' = <<>>
           /\ dirs' = dirs /\ files' = files
           /\ exit' = 1
           /\ out'.kind = "Unknown mode or template"
           /\ out'.token = mode'
           /\ out'.names = RegistryKeys)]_vars

\* C9 witness: `nonexistent` was refused against the registry {api, cli}; so
\* was `API`, which differs from `api` by case only.
C9_Witness ==
    /\ op = "new" /\ mode = "nonexistent" /\ exit = 1
    /\ out = Message("Unknown mode or template", "nonexistent", {"api", "cli"})
    /\ creator = Nil

C9_WitnessCase ==
    /\ op = "new" /\ mode = "API" /\ exit = 1
    /\ out = Message("Unknown mode or template", "API", {"api", "cli"})

\* the project-local configuration files on disk
LocalConfigs == {p \in DOMAIN files : p[Len(p)] = ConfigFileName[1] /\ Len(p) = 3}

\* C10 (as claimed): two templated generations of the same project name with
\* the same base mode (`simple` or `project`) and the same command mapping (so
\* the same set of command lines) have written the same configuration text,
\* the order of the lines of the commands block included.
C10_Deterministic ==
    \A p, q \in LocalConfigs :
        (/\ files[p].name = files[q].name
         /\ files[p].mode = files[q].mode
         /\ files[p].mode \in {"simple", "project"}
         /\ Range(files[p].commands) = Range(files[q].commands))
        => files[p] = files[q]

\* the number of steps of the base scaffold of the last Creator
BaseLen ==
    Len(IF creator.Mode = "simple" THEN SimpleSteps(Target, creator.Name)
        ELSE ProjectSteps(Target, creator.Name))

\* the last Create executed every step of its base scaffold, none failing
BaseCompleted ==
    /\ Len(trace) >= BaseLen
    /\ \A i \in 1..BaseLen : trace[i].ok

\* the steps of the last Create that follow its base scaffold, git aside:
\* the extra directories with their placeholders, the extra files and the
\* project-local configuration
TemplateStepsOf == {j \in DOMAIN trace : j > BaseLen /\ trace[j].op # "InitGit"}

\* C11 (as claimed): in a templated generation with base mode `simple` or
\* `project` whose base scaffold completed, git initialization was attempted,
\* also when a later template step failed, and the attempt precedes every
\* step that follows the base scaffold: the first extra directory, every
\* extra file, and the write of the project-local configuration, which is
\* the last step.
C11_GitWithBaseScaffold ==
    (/\ Ran /\ creator.Template # Nil
     /\ creator.Mode \in {"simple", "project"}
     /\ BaseCompleted)
    => /\ \E i \in DOMAIN trace : trace[i].op = "InitGit"
       /\ \A i \in DOMAIN trace : trace[i].op = "InitGit" =>
            \A j \in TemplateStepsOf : i < j
       /\ createErr = Nil =>
            trace[Len(trace)] =
                [op |-> "WriteFile", path |-> Join(Target, ConfigFileName), ok |-> TRUE]

\* C11, the attempt alone: a templated generation whose base scaffold
\* completed has attempted git initialization, whatever happened afterwards.
C11_GitAlwaysAttempted ==
    (/\ Ran /\ creator.Template # Nil
     /\ creator.Mode \in {"simple", "project"}
     /\ BaseCompleted)
    => \E i \in DOMAIN trace : trace[i].op = "InitGit"

\* C11, the order alone: in a templated generation that succeeded, no step
\* of the template follows the git initialization attempt.
C11_GitBeforeTemplateSteps ==
    (TemplatedOk /\ creator.Mode \in {"simple", "project"})
    => \A i \in DOMAIN trace : trace[i].op = "InitGit" =>
            \A j \in TemplateStepsOf : i < j

====
